---- MODULE Spec2Model ----
(***************************************************************************)
(* Deep-Reasoning orchestrator (app/main.py, app/schemas.py): the          *)
(* dependency-resolving executor Orchestrator._execute_exploration_steps   *)
(* and the iteration loop Orchestrator.run, with the planning, thinking,   *)
(* review and synthesis stages as blocking calls whose outcomes are        *)
(* nondeterministic.                                                       *)
(*                                                                         *)
(* Identifiers and qualified ids are sequences of one-character strings,   *)
(* so that f"{plan_id}.{step_id}" and str.split('.', 1) are computed.      *)
(* Optional[T] is a sequence of length 0 (None) or 1 (a value).            *)
(***************************************************************************)
EXTENDS Integers, Sequences, FiniteSets, TLC

VARIABLES
    pc,                        \* position of run(): "planning", "executing", "reviewing",
                               \* "synthesizing", "returned", "raised"
    max_iterations,            \* self.MAX_ITERATIONS as set by __init__
    current_iteration,         \* run() local
    iterations_no_progress,    \* run() local
    previous_review_guidance,  \* run() local, Optional[NextIterationGuidance]
    guidance_prompt_segment,   \* run() local, Optional[str]: the directive of the translator
    full_history,              \* run() local, list of {plans_with_responses, review}
    result,                    \* Optional[str]: what run() returned
    exploration_plans,         \* the plan list held by the executor (mutated in place)
    completed_step_outputs,    \* executor local, Dict[str, str]
    executed_step_qnames,      \* executor local, Set[str]
    pass_num,                  \* executor local
    executed_in_this_pass,     \* executor local
    cursor,                    \* executor: index in all_steps_to_process of the next step the
                               \* inner for loop will look at
    exit_reason,               \* executor: how the pass loop was left
    think_calls,               \* observed calls of ThinkerAgent.think, in order
    planner_calls,             \* observed calls of PlannerAgent.generate_plan
    review_calls,              \* observed calls of ReviewerAgent.review
    synth_calls                \* observed calls of SynthesizerAgent.synthesize

run_vars == <<max_iterations, current_iteration, iterations_no_progress,
              previous_review_guidance, guidance_prompt_segment, full_history, result,
              planner_calls, review_calls, synth_calls>>
exec_vars == <<exploration_plans, completed_step_outputs, executed_step_qnames,
               pass_num, executed_in_this_pass, cursor, exit_reason, think_calls>>
vars == <<pc, run_vars, exec_vars>>

----------------------------------------------------------------------------
(* Python values *)

None == <<>>
Some(v) == <<v>>
IsNone(o) == o = <<>>
Val(o) == o[1]

\* Truth value of an Optional[str] / Optional[list]: None, "" and [] are falsy.
TruthyStr(o) == o # None /\ Val(o) # ""
TruthyList(o) == o # None /\ Val(o) # <<>>

Dot == "."
Str(c) == <<c>>

\* f"{plan_id}.{step_id}"
QName(plan_id, step_id) == plan_id \o <<Dot>> \o step_id

HasDot(s) == \E k \in 1..Len(s) : s[k] = Dot
FirstDot(s) == CHOOSE k \in 1..Len(s) : s[k] = Dot /\ \A m \in 1..(k - 1) : s[m] # Dot

\* dep_qname.split('.', 1): two parts when there is a dot, one part otherwise.
SplitOnce(s) ==
    IF HasDot(s)
    THEN <<SubSeq(s, 1, FirstDot(s) - 1), SubSeq(s, FirstDot(s) + 1, Len(s))>>
    ELSE <<s>>

NoResponseRecorded == "No response recorded."
DependencyOutputNotFound == "Error: Dependency output not found!"

----------------------------------------------------------------------------
(* Bounds and input universes *)

MaxSteps == 3

PlanP == Str("p")
PlanQ == Str("q")
StepA == Str("a")
StepB == Str("b")

\* references to the steps p.a, p.b and q.a (dangling in a plan list without that
\* step), and two that are not of the form plan_id.step_id: "pa" and ""
RealRefs == {QName(PlanP, StepA), QName(PlanP, StepB), QName(PlanQ, StepA)}
MalformedRefs == {<<"p", "a">>, <<>>}
DepRefs == RealRefs \cup MalformedRefs

DepChoices ==
    {None, Some(<<>>)}
    \cup {Some(<<d>>) : d \in DepRefs}
    \cup {Some(<<QName(PlanP, StepA), QName(PlanP, StepB)>>),
          Some(<<QName(PlanQ, StepA), QName(PlanP, StepB)>>)}

\* what one thinker.think call returns (ThinkerAgent.think returns a stripped string)
ThinkOutputs == {"A-result", "B-result", ""}

NewStep(sid, deps) ==
    [step_id |-> sid, instructions |-> "do", dependencies |-> deps, response |-> None]

NewPlan(pid, steps) ==
    [plan_id |-> pid, strategy |-> Str("s"), steps |-> steps]

\* what think may return for a step: for a step a "A-result" or the empty string,
\* for a step b "B-result"
ThinkOutputsFor(step) ==
    IF step.step_id = StepA THEN ThinkOutputs \ {"B-result"} ELSE {"B-result"}

\* the steps a planner may put in plan p and in plan q
StepChoicesP == {NewStep(sid, deps) : sid \in {StepA, StepB}, deps \in DepChoices}
StepChoicesQ == {NewStep(StepA, deps) : deps \in DepChoices}

----------------------------------------------------------------------------
(* Orchestrator._execute_exploration_steps *)

RECURSIVE StepIndexes(_, _, _)
\* index pairs <<plan, step>> of plans[i..], steps j.. of plan i first
StepIndexes(plans, i, j) ==
    IF i > Len(plans) THEN <<>>
    ELSE IF j > Len(plans[i].steps) THEN StepIndexes(plans, i + 1, 1)
    ELSE <<<<i, j>>>> \o StepIndexes(plans, i, j + 1)

\* all_steps_to_process, as <<plan index, step index>> pairs in declared order
all_steps_to_process(plans) == StepIndexes(plans, 1, 1)

StepAt(plans, ij) == plans[ij[1]].steps[ij[2]]

step_qname(plans, ij) == QName(plans[ij[1]].plan_id, StepAt(plans, ij).step_id)

\* (step_obj.dependencies or [])
DepsOf(step) == IF TruthyList(step.dependencies) THEN Val(step.dependencies) ELSE <<>>

\* Variant: a step without a dependencies list is never ready.
dependencies_met_listed(step, completed) ==
    /\ step.dependencies # None
    /\ \A k \in 1..Len(DepsOf(step)) : DepsOf(step)[k] \in DOMAIN completed

\* Variant: a step counts as ready as soon as one of its dependencies has an output.
dependencies_met_any(step, completed) ==
    \/ DepsOf(step) = <<>>
    \/ \E k \in 1..Len(DepsOf(step)) : DepsOf(step)[k] \in DOMAIN completed

\* Variant: a reference without a dot is not waited for.
dependencies_met_wellformed(step, completed) ==
    \A k \in 1..Len(DepsOf(step)) :
        HasDot(DepsOf(step)[k]) => DepsOf(step)[k] \in DOMAIN completed

dependencies_met(step, completed) ==
    \A k \in 1..Len(DepsOf(step)) : DepsOf(step)[k] \in DOMAIN completed

\* Variant: the inner loop does not skip a step that has already been executed.
Runnable_again(plans, ij, completed, executed) ==
    dependencies_met(StepAt(plans, ij), completed)

\* the inner loop looks at a step and runs it: not yet executed, dependencies met
Runnable(plans, ij, completed, executed) ==
    /\ step_qname(plans, ij) \notin executed
    /\ dependencies_met(StepAt(plans, ij), completed)

\* Variant: the inner loop runs the last runnable step of the list first.
NextRunnable_last ==
    LET all == all_steps_to_process(exploration_plans)
        C == {k \in cursor..Len(all) :
                Runnable(exploration_plans, all[k], completed_step_outputs, executed_step_qnames)}
    IN IF C = {} THEN 0 ELSE CHOOSE k \in C : \A m \in C : k >= m

\* the first index >= cursor of all_steps_to_process whose step the inner loop runs; 0 if none
NextRunnable ==
    LET all == all_steps_to_process(exploration_plans)
        C == {k \in cursor..Len(all) :
                Runnable(exploration_plans, all[k], completed_step_outputs, executed_step_qnames)}
    IN IF C = {} THEN 0 ELSE CHOOSE k \in C : \A m \in C : k <= m

\* the unpacking p_id, s_id = dep_qname.split('.', 1) fails unless there are two parts
SplitRaises(step) ==
    \E k \in 1..Len(DepsOf(step)) : Len(SplitOnce(DepsOf(step)[k])) # 2

\* Variant: the outputs are packaged from the last declared dependency to the first.
DependencyOutputs_reversed(step, completed) ==
    [k \in 1..Len(DepsOf(step)) |->
        LET d == DepsOf(step)[Len(DepsOf(step)) + 1 - k]
        IN [plan_id |-> SplitOnce(d)[1],
            step_id |-> SplitOnce(d)[2],
            content |-> IF d \in DOMAIN completed THEN completed[d]
                        ELSE DependencyOutputNotFound]]

\* dep_outputs_xml_parts between the opening and the closing tag: one <output> per
\* declared dependency, in declared order
DependencyOutputs(step, completed) ==
    [k \in 1..Len(DepsOf(step)) |->
        LET d == DepsOf(step)[k]
        IN [plan_id |-> SplitOnce(d)[1],
            step_id |-> SplitOnce(d)[2],
            content |-> IF d \in DOMAIN completed THEN completed[d]
                        ELSE DependencyOutputNotFound]]

\* the dependency_outputs_context argument of think
DependencyContext(step, completed) ==
    IF TruthyList(step.dependencies) THEN Some(DependencyOutputs(step, completed)) ELSE None

\* Variant: the executor also marks the instructions of the step it has run.
SetResponse_marked(plans, ij, text) ==
    [plans EXCEPT ![ij[1]].steps[ij[2]].response = Some(text),
                  ![ij[1]].steps[ij[2]].instructions = "done"]

\* step_obj.response = ...
SetResponse(plans, ij, text) ==
    [plans EXCEPT ![ij[1]].steps[ij[2]].response = Some(text)]

\* Variant: an empty response is not stored as an output.
RecordOutput_nonempty(completed, q, text) ==
    IF text # "" THEN (q :> text) @@ completed ELSE completed

\* completed_step_outputs[step_qname] = step_obj.response or "No response recorded."
RecordOutput(completed, q, text) ==
    (q :> (IF text # "" THEN text ELSE NoResponseRecorded)) @@ completed

\* Variant: the executed ids are compared with the number of distinct ids of the list.
AllExecuted_names(plans, executed) ==
    LET all == all_steps_to_process(plans)
    IN Cardinality(executed) = Cardinality({step_qname(plans, all[k]) : k \in 1..Len(all)})

\* if len(executed_step_qnames) == len(all_steps_to_process): break
AllExecuted(plans, executed) == Cardinality(executed) = Len(all_steps_to_process(plans))

\* Variant: the end-of-pass test never ends the executor.
NoProgress_never(pnum, inpass, plans, executed) == FALSE

\* Variant: any later pass that leaves steps unexecuted ends the executor, progress or not.
NoProgress_any_pass(pnum, inpass, plans, executed) ==
    /\ pnum > 0
    /\ Cardinality(executed) < Len(all_steps_to_process(plans))

\* if pass_num > 0 and executed_in_this_pass == 0 and len(executed) < len(all): break
NoProgress(pnum, inpass, plans, executed) ==
    /\ pnum > 0
    /\ inpass = 0
    /\ Cardinality(executed) < Len(all_steps_to_process(plans))

\* max_passes = len(all_steps_to_process); for pass_num in range(max_passes + 1)
max_passes(plans) == Len(all_steps_to_process(plans))
\* Variant: for pass_num in range(2), whatever the number of steps.
PassInRange_two(pnum, plans) == pnum <= 1
PassInRange(pnum, plans) == pnum <= max_passes(plans)

\* Variant: an empty plan list sends run() back to the planner.
ExecEntry_replan(plans) ==
    IF plans = <<>> THEN [pc |-> "planning", exit |-> "empty"]
    ELSE IF AllExecuted(plans, {}) THEN [pc |-> "reviewing", exit |-> "all_executed"]
    ELSE [pc |-> "executing", exit |-> "running"]

\* The state of the executor when the first pass is about to look at the first step,
\* or how it left at once.
ExecEntry(plans) ==
    IF plans = <<>> THEN [pc |-> "reviewing", exit |-> "empty"]
    ELSE IF AllExecuted(plans, {}) THEN [pc |-> "reviewing", exit |-> "all_executed"]
    ELSE [pc |-> "executing", exit |-> "running"]

\* One call self.thinker.think(...) for the step at ij, as observed: its arguments,
\* where the executor stood, and what came back (None: the call raised).
ThinkCall(ij, returned) ==
    LET step == StepAt(exploration_plans, ij)
    IN [iteration |-> current_iteration,
        pass |-> pass_num,
        at |-> ij,
        qname |-> step_qname(exploration_plans, ij),
        step_instructions |-> step.instructions,
        dependency_outputs_context |-> DependencyContext(step, completed_step_outputs),
        outputs_at_call |-> DOMAIN completed_step_outputs,
        returned |-> returned]

\* thinker.think returns `text` for the next runnable step of this pass
ThinkReturns ==
    /\ pc = "executing"
    /\ NextRunnable # 0
    /\ LET all == all_steps_to_process(exploration_plans)
           ij == all[NextRunnable]
           step == StepAt(exploration_plans, ij)
           q == step_qname(exploration_plans, ij)
       IN /\ ~SplitRaises(step)
          /\ \E text \in ThinkOutputsFor(step) :
                /\ exploration_plans' = SetResponse(exploration_plans, ij, text)
                /\ completed_step_outputs' = RecordOutput(completed_step_outputs, q, text)
                /\ think_calls' = Append(think_calls, ThinkCall(ij, Some(text)))
          /\ executed_step_qnames' = executed_step_qnames \cup {q}
          /\ executed_in_this_pass' = executed_in_this_pass + 1
          /\ cursor' = NextRunnable + 1
    /\ UNCHANGED <<pc, run_vars, pass_num, exit_reason>>

\* thinker.think raises for the next runnable step (or building its context does):
\* nothing in the executor or in run() catches it
ThinkRaises ==
    /\ pc = "executing"
    /\ NextRunnable # 0
    /\ LET all == all_steps_to_process(exploration_plans)
           ij == all[NextRunnable]
           step == StepAt(exploration_plans, ij)
       IN think_calls' =
            IF SplitRaises(step) THEN think_calls
            ELSE Append(think_calls, ThinkCall(ij, None))
    /\ pc' = "raised"
    /\ UNCHANGED <<run_vars, exploration_plans, completed_step_outputs,
                   executed_step_qnames, pass_num, executed_in_this_pass, cursor,
                   exit_reason>>

\* the inner for loop runs out of steps to run: the end-of-pass check, then the head
\* of the next pass
EndPass ==
    /\ pc = "executing"
    /\ NextRunnable = 0
    /\ IF NoProgress(pass_num, executed_in_this_pass, exploration_plans, executed_step_qnames)
       THEN /\ pc' = "reviewing"
            /\ exit_reason' = "no_progress"
            /\ UNCHANGED <<pass_num, executed_in_this_pass, cursor>>
       ELSE IF ~PassInRange(pass_num + 1, exploration_plans)
       THEN /\ pc' = "reviewing"
            /\ exit_reason' = "passes_exhausted"
            /\ UNCHANGED <<pass_num, executed_in_this_pass, cursor>>
       ELSE /\ pass_num' = pass_num + 1
            /\ executed_in_this_pass' = 0
            /\ cursor' = 1
            /\ IF AllExecuted(exploration_plans, executed_step_qnames)
               THEN pc' = "reviewing" /\ exit_reason' = "all_executed"
               ELSE pc' = "executing" /\ exit_reason' = exit_reason
    /\ UNCHANGED <<run_vars, exploration_plans, completed_step_outputs,
                   executed_step_qnames, think_calls>>

----------------------------------------------------------------------------
(* Objects of app/schemas.py.  An object is a record whose domain is the set of
   attributes it has; reading an attribute outside the domain raises
   AttributeError.  Constructing a model without one of its required fields raises
   a pydantic ValidationError (fields the class does not declare are ignored). *)

HasAttr(obj, name) == name \in DOMAIN obj

Actions == {"DEEPEN", "BROADEN", "CONTINUE_DFS_PATH", "RETRY_STEP_WITH_MODIFICATION",
            "HALT_SUFFICIENT", "HALT_STAGNATION", "HALT_NO_FEASIBLE_PATH"}
HaltActions == {"HALT_SUFFICIENT", "HALT_STAGNATION", "HALT_NO_FEASIBLE_PATH"}

ErrorInReviewProcessing == "ERROR_IN_REVIEW_PROCESSING"

\* the fields class ReviewerOut declares, and those among them without a default
ReviewerOutFields == {"assessment_of_current_iteration", "is_sufficient_for_synthesis",
                      "context_to_use", "next_iteration_guidance"}
ReviewerOutRequired == {"assessment_of_current_iteration", "is_sufficient_for_synthesis",
                        "next_iteration_guidance"}

\* the fields class NextIterationGuidance declares
GuidanceFields == {"action", "reasoning", "target_plan_id", "target_step_id",
                   "suggested_modifications_or_focus", "excluded_strategies",
                   "new_strategy_suggestion", "current_dfs_path_summary"}

\* ReviewerOut(**kwargs) raises ValidationError
ReviewerOutRejects(kwargs) == ~(ReviewerOutRequired \subseteq kwargs)

\* the keyword arguments of the fallback ReviewerOut(...) built in the except branch
\* of ReviewerAgent.review
FallbackKwargs == {"iteration_assessment", "synthesis_ready", "selected_context",
                   "next_iteration_guidance"}

ContextSelection(pid, sids) == [plan_id |-> pid, step_ids |-> sids]

\* str.strip(): the string (a sequence of characters) without its leading and
\* trailing whitespace
IsSpace(c) == c \in {" ", "\t", "\n"}

RECURSIVE LStrip(_)
LStrip(str) == IF str = <<>> \/ ~IsSpace(Head(str)) THEN str ELSE LStrip(Tail(str))

RECURSIVE RStrip(_)
RStrip(str) ==
    IF str = <<>> \/ ~IsSpace(str[Len(str)]) THEN str
    ELSE RStrip(SubSeq(str, 1, Len(str) - 1))

Strip(str) == RStrip(LStrip(str))

\* Variant: only the empty strategy is rejected.
validate_strategy_raises_empty(plan) == plan.strategy = <<>>

\* ExplorationPlan.validate_strategy raises:
\* if not self.strategy or not self.strategy.strip()
validate_strategy_raises(plan) == plan.strategy = <<>> \/ Strip(plan.strategy) = <<>>

\* Variant: the seventh plan is the first one too many.
max_five_plans_raises_six(plans) == Len(plans) > 6

\* PlannerOut.max_five_plans raises: if len(v.exploration_plans) > 5
max_five_plans_raises(plans) == Len(plans) > 5

\* PlannerOut(exploration_plans=plans) raises a ValidationError: one of its plans is
\* rejected, or the list is
PlannerOutRejects(plans) ==
    \/ \E k \in 1..Len(plans) : validate_strategy_raises(plans[k])
    \/ max_five_plans_raises(plans)

\* a NextIterationGuidance as schemas.py declares it
DeclaredGuidance(action, tp, ts) ==
    [action |-> action, reasoning |-> "because",
     target_plan_id |-> tp, target_step_id |-> ts,
     suggested_modifications_or_focus |-> None, excluded_strategies |-> None,
     new_strategy_suggestion |-> None, current_dfs_path_summary |-> None]

\* an instance of a subclass that also has the attributes main.py reads
ExtendedGuidance(action, tp, ts) ==
    DeclaredGuidance(action, tp, ts)
    @@ [refinement_details |-> None, suggested_strategy |-> None, dfs_path_summary |-> None]

\* a ReviewerOut as schemas.py declares it
DeclaredReview(assessment, ctx, g) ==
    [assessment_of_current_iteration |-> assessment,
     is_sufficient_for_synthesis |-> (g.action = "HALT_SUFFICIENT"),
     context_to_use |-> ctx,
     next_iteration_guidance |-> g]

\* an instance of a subclass of ReviewerOut (it passes isinstance(response, ReviewerOut))
\* that also has the attributes main.py reads
ExtendedReview(assessment, ctx, g) ==
    DeclaredReview(assessment, ctx, g)
    @@ [iteration_assessment |-> assessment,
        synthesis_ready |-> (g.action = "HALT_SUFFICIENT"),
        selected_context |-> ctx]

----------------------------------------------------------------------------
(* Orchestrator._get_step_details_from_history and
   Orchestrator._prepare_planner_guidance_prompt *)

\* s_hist.response or "No response recorded."
ResponseOr(step, default) == IF TruthyStr(step.response) THEN Val(step.response) ELSE default

\* the first step, plans and steps in declared order, with these ids; <<0, 0>> if none
FindStep(plans, plan_id, step_id) ==
    LET all == all_steps_to_process(plans)
        M == {k \in 1..Len(all) :
                /\ plans[all[k][1]].plan_id = plan_id
                /\ StepAt(plans, all[k]).step_id = step_id}
    IN IF M = {} THEN <<0, 0>> ELSE all[CHOOSE k \in M : \A m \in M : k <= m]

RECURSIVE StepDetailsFrom(_, _, _, _)
\* for hist_item in reversed(full_history): ... return at the first match
StepDetailsFrom(plan_id, step_id, history, n) ==
    IF n = 0 THEN [original_instruction |-> None, previous_output |-> None]
    ELSE LET plans == history[n].plans_with_responses
             ij == FindStep(plans, plan_id, step_id)
         IN IF ij # <<0, 0>>
            THEN [original_instruction |-> Some(StepAt(plans, ij).instructions),
                  previous_output |-> Some(ResponseOr(StepAt(plans, ij), NoResponseRecorded))]
            ELSE StepDetailsFrom(plan_id, step_id, history, n - 1)

\* Variant: the oldest record holding the step is used.
get_step_details_from_history_oldest(plan_id, step_id, history) ==
    LET N == {n \in 1..Len(history) :
                FindStep(history[n].plans_with_responses, plan_id, step_id) # <<0, 0>>}
    IN IF N = {} THEN StepDetailsFrom(plan_id, step_id, history, 0)
       ELSE StepDetailsFrom(plan_id, step_id, history, CHOOSE n \in N : \A m \in N : n <= m)

get_step_details_from_history(plan_id, step_id, history) ==
    StepDetailsFrom(plan_id, step_id, history, Len(history))

TargetActions == {"DEEPEN", "CONTINUE_DFS_PATH", "RETRY_STEP_WITH_MODIFICATION"}

\* step_details[...] or 'Not available'
OrNotAvailable(o) == IF TruthyStr(o) THEN Val(o) ELSE "Not available"

\* the attribute reads of _prepare_planner_guidance_prompt that the guidance object
\* may not satisfy
GuidanceAttributeError(g) ==
    \/ ~HasAttr(g, "refinement_details")
    \/ g.action = "BROADEN" /\ ~HasAttr(g, "suggested_strategy")
    \/ g.action = "CONTINUE_DFS_PATH" /\ ~HasAttr(g, "dfs_path_summary")

\* guidance_text_parts, each line as <<what it says, the value it carries>>
GuidanceTextParts(g, history) ==
    LET head == <<<<"action", g.action>>, <<"reasoning", g.reasoning>>>>
        details == get_step_details_from_history(Val(g.target_plan_id),
                                                 Val(g.target_step_id), history)
        target ==
            IF g.action \notin TargetActions THEN <<>>
            ELSE IF TruthyList(g.target_plan_id) /\ TruthyList(g.target_step_id)
            THEN <<<<"Target Plan ID", Val(g.target_plan_id)>>,
                   <<"Target Step ID", Val(g.target_step_id)>>>>
                 \o (IF g.action = "RETRY_STEP_WITH_MODIFICATION"
                     THEN <<<<"Original instruction of target step",
                              OrNotAvailable(details.original_instruction)>>>>
                     ELSE <<>>)
                 \o <<<<"Previous output of target step",
                        OrNotAvailable(details.previous_output)>>>>
            ELSE <<<<"Warning", "Target plan/step ID missing">>>>
        focus == IF TruthyStr(g.refinement_details)
                 THEN <<<<"Suggested modifications or focus", Val(g.refinement_details)>>>>
                 ELSE <<>>
        broaden ==
            IF g.action # "BROADEN" THEN <<>>
            ELSE (IF TruthyList(g.excluded_strategies)
                  THEN <<<<"Excluded strategies", Val(g.excluded_strategies)>>>> ELSE <<>>)
                 \o (IF TruthyStr(g.suggested_strategy)
                     THEN <<<<"New strategy suggestion", Val(g.suggested_strategy)>>>>
                     ELSE <<>>)
        dfs == IF g.action = "CONTINUE_DFS_PATH" /\ TruthyStr(g.dfs_path_summary)
               THEN <<<<"Current DFS path summary", Val(g.dfs_path_summary)>>>> ELSE <<>>
    IN head \o target \o focus \o broaden \o dfs

\* Variant: the translator reverses the list it was given in place.
HistoryAfterTranslation_reversed(guidance, history) ==
    [k \in 1..Len(history) |-> history[Len(history) + 1 - k]]

\* full_history after the call: the translator and its lookup assign only to their
\* locals details and guidance_text_parts; reversed() gives an iterator and leaves
\* the list as it is
HistoryAfterTranslation(guidance, history) == history

\* Variant: the target step is looked up in an empty history.
prepare_planner_guidance_prompt_nohistory(guidance, history) ==
    IF guidance = None THEN None ELSE Some(GuidanceTextParts(Val(guidance), <<>>))

\* Optional[str]: None without guidance
prepare_planner_guidance_prompt(guidance, history) ==
    IF guidance = None THEN None ELSE Some(GuidanceTextParts(Val(guidance), history))

----------------------------------------------------------------------------
(* SynthesizerAgent._build_process_history and _build_selected_responses_segment *)

\* Variant: the selected_context of the first record.
FinalSelectedContext_first(history) ==
    IF history = <<>> THEN None ELSE history[1].review.selected_context

\* final_selected_context: the selected_context of the last record
FinalSelectedContext(history) ==
    IF history = <<>> THEN None ELSE history[Len(history)].review.selected_context

RECURSIVE AllStepResponsesUpTo(_, _)
\* all_step_responses after the first n records: later records overwrite earlier ones
AllStepResponsesUpTo(history, n) ==
    IF n = 0 THEN <<>>
    ELSE LET plans == history[n].plans_with_responses
             all == all_steps_to_process(plans)
             names == {step_qname(plans, all[k]) : k \in 1..Len(all)}
             \* within one record the last step of a name wins
             last(q) == CHOOSE k \in 1..Len(all) :
                            /\ step_qname(plans, all[k]) = q
                            /\ \A m \in 1..Len(all) : step_qname(plans, all[m]) = q => m <= k
         IN [q \in names |-> ResponseOr(StepAt(plans, all[last(q)]), "N/A")]
            @@ AllStepResponsesUpTo(history, n - 1)

ResponseNotFound == "Response not found for this step in history."

RECURSIVE SelectedParts(_, _)
\* one <step_response> per selected step id, groups and ids in the order given
SelectedParts(groups, responses) ==
    IF groups = <<>> THEN <<>>
    ELSE LET grp == Head(groups)
         IN [k \in 1..Len(grp.step_ids) |->
                LET q == QName(grp.plan_id, grp.step_ids[k])
                IN [plan_id |-> grp.plan_id, step_id |-> grp.step_ids[k],
                    text |-> IF q \in DOMAIN responses THEN responses[q]
                             ELSE ResponseNotFound]]
            \o SelectedParts(Tail(groups), responses)

\* Variant: the selected steps are looked up in the last record only.
build_selected_responses_segment_last(final_selected_context, history) ==
    IF ~TruthyList(final_selected_context) THEN None
    ELSE LET parts == SelectedParts(Val(final_selected_context),
                                    AllStepResponsesUpTo(<<history[Len(history)]>>, 1))
         IN IF parts # <<>> THEN Some(parts) ELSE None

\* Optional: the <selected_step_responses> segment
build_selected_responses_segment(final_selected_context, history) ==
    IF ~TruthyList(final_selected_context) THEN None
    ELSE LET parts == SelectedParts(Val(final_selected_context),
                                    AllStepResponsesUpTo(history, Len(history)))
         IN IF parts # <<>> THEN Some(parts) ELSE None

\* per record what _build_process_history writes about it
ProcessHistory(history) ==
    [n \in 1..Len(history) |->
        [iteration |-> n,
         plans |-> history[n].plans_with_responses,
         assessment |-> history[n].review.iteration_assessment,
         action |-> history[n].review.next_iteration_guidance.action,
         reasoning |-> history[n].review.next_iteration_guidance.reasoning]]

\* _build_process_history reads review_obj.iteration_assessment and .selected_context
ProcessHistoryAttributeError(history) ==
    \E n \in 1..Len(history) :
        \/ ~HasAttr(history[n].review, "iteration_assessment")
        \/ n = Len(history) /\ ~HasAttr(history[n].review, "selected_context")

----------------------------------------------------------------------------
(* Orchestrator.run *)

\* the bound on self.MAX_ITERATIONS in the runs explored
MaxIterBound == 3

\* Orchestrator.STAGNATION_THRESHOLD
STAGNATION_THRESHOLD == 2

ErrNoInitialPlan == "Error: Planner failed to generate an initial plan and there's no history. Cannot proceed."
ErrNoHistory == "Error: No history was generated. Cannot synthesize."
SynthesizedAnswer == "final answer"

\* what planner.generate_plan returns: [] (the call failed or gave no plans), or
\* plan p with the two independent steps a and b
RunPlanLists == {<<>>, <<NewPlan(PlanP, <<NewStep(StepA, None), NewStep(StepB, None)>>)>>}

\* a planner answer with six plans, of which the first has a step
SixPlans ==
    [k \in 1..6 |-> NewPlan(Str(<<"p", "q", "r", "s", "t", "u">>[k]),
                            IF k = 1 THEN <<NewStep(StepA, None)>> ELSE <<>>)]

\* planner answers with one plan whose strategy is whitespace, or empty
BlankStrategyPlans ==
    {<<[NewPlan(PlanP, <<NewStep(StepA, None), NewStep(StepB, None)>>)
            EXCEPT !.strategy = strategy]>> : strategy \in {<<" ", "\t">>, <<>>}}

\* the exploration_plans of the answers the model may give to client.planner_call;
\* <<>> also stands for a call that raises
PlannerResponses == RunPlanLists \cup {SixPlans} \cup BlankStrategyPlans

\* PlannerAgent.generate_plan: the plans of the PlannerOut the client parsed; [] when
\* the answer does not validate as a PlannerOut (the client raises, the except
\* branch returns []) or holds no plans
generate_plan(response) ==
    IF PlannerOutRejects(response) THEN <<>> ELSE response

SelectPA == Some(<<ContextSelection(PlanP, <<StepA>>)>>)
SelectPAB == Some(<<ContextSelection(PlanP, <<StepA, StepB>>)>>)

\* what client.reviewer_call returns when it returns a ReviewerOut
ExtendedReviews ==
    {ExtendedReview("fine", None, ExtendedGuidance(a, None, None)) : a \in Actions}
    \cup {ExtendedReview("fine", ctx, ExtendedGuidance("BROADEN", None, None)) :
            ctx \in {Some(<<>>), SelectPA}}
    \cup {ExtendedReview("fine", SelectPAB, ExtendedGuidance("DEEPEN", Some(PlanP), Some(StepA))),
          ExtendedReview("fine", SelectPA,
                         ExtendedGuidance("HALT_SUFFICIENT", Some(PlanP), Some(StepA)))}
    \cup {ExtendedReview(ErrorInReviewProcessing, None, ExtendedGuidance("BROADEN", None, None))}
    \cup {ExtendedReview("fine", SelectPAB, ExtendedGuidance("HALT_SUFFICIENT", None, None))}
\* ReviewerOut has no validator: is_sufficient_for_synthesis is any bool, whatever
\* the action of the guidance
DeclaredReviews ==
    {DeclaredReview("fine", SelectPA, DeclaredGuidance("BROADEN", None, None)),
     DeclaredReview("fine", SelectPAB, DeclaredGuidance("HALT_SUFFICIENT", None, None)),
     [DeclaredReview("fine", SelectPA, DeclaredGuidance("DEEPEN", None, None))
        EXCEPT !.is_sufficient_for_synthesis = TRUE],
     [DeclaredReview("fine", SelectPA, DeclaredGuidance("HALT_SUFFICIENT", None, None))
        EXCEPT !.is_sufficient_for_synthesis = FALSE]}
ReviewResults == ExtendedReviews \cup DeclaredReviews

\* if action in [HALT_*] or review_obj.iteration_assessment == "ERROR_IN_REVIEW_PROCESSING"
ReviewerHalts(review) ==
    \/ review.next_iteration_guidance.action \in HaltActions
    \/ review.iteration_assessment = ErrorInReviewProcessing

\* Variant: the cap is compared with ==.
IterationCapReached_exact(iteration, cap) == iteration = cap

\* Variant: the cap is compared with >, one iteration late.
IterationCapReached_late(iteration, cap) == iteration > cap

\* if current_iteration >= self.MAX_ITERATIONS
IterationCapReached(iteration, cap) == iteration >= cap

\* Variant: the loop is also left when the counter has reached the threshold.
AfterReview_stagnation(review, count, iteration, cap) ==
    IF ReviewerHalts(review) \/ count >= STAGNATION_THRESHOLD THEN "synthesizing"
    ELSE IF IterationCapReached(iteration, cap) THEN "synthesizing"
    ELSE "planning"

\* where run() goes after the bookkeeping: the two breaks, else the next pass of the
\* while loop; the counter is not read
AfterReview(review, count, iteration, cap) ==
    IF ReviewerHalts(review) THEN "synthesizing"
    ELSE IF IterationCapReached(iteration, cap) THEN "synthesizing"
    ELSE "planning"

\* Variant: an empty selection list resets the counter like a non-empty one.
NextNoProgress_present(count, review) == IF review.selected_context # None THEN 0 ELSE count + 1

\* if review_obj.selected_context: 0, else: += 1
NextNoProgress(count, review) == IF TruthyList(review.selected_context) THEN 0 ELSE count + 1

\* Variant: an empty plan list never ends the run.
NoInitialPlan_never(plans, history) == FALSE

\* Variant: an empty plan list ends the run on any iteration.
NoInitialPlan_any(plans, history) == plans = <<>>

\* if not current_exploration_plans: if not full_history: return "Error: ..."
NoInitialPlan(plans, history) == plans = <<>> /\ history = <<>>

\* Variant: the new record replaces the last one.
AppendRecord_replace(history, plans, review) ==
    IF history = <<>> THEN <<[plans_with_responses |-> plans, review |-> review]>>
    ELSE [history EXCEPT ![Len(history)] = [plans_with_responses |-> plans, review |-> review]]

\* full_history.append({"plans_with_responses": ..., "review": review_obj})
AppendRecord(history, plans, review) ==
    Append(history, [plans_with_responses |-> plans, review |-> review])

\* executor locals as _execute_exploration_steps sets them up
ExecStart(plans) ==
    /\ exploration_plans' = plans
    /\ completed_step_outputs' = <<>>
    /\ executed_step_qnames' = {}
    /\ pass_num' = 0
    /\ executed_in_this_pass' = 0
    /\ cursor' = 1
    /\ exit_reason' = ExecEntry(plans).exit

\* One pass of the while loop up to the call of the executor: the iteration count,
\* the guidance directive, the planner call, the no-plans check.
PlanStage ==
    /\ pc = "planning"
    /\ current_iteration' = current_iteration + 1
    /\ IF previous_review_guidance # None /\ GuidanceAttributeError(Val(previous_review_guidance))
       THEN /\ pc' = "raised"
            /\ UNCHANGED <<guidance_prompt_segment, planner_calls, result, exec_vars>>
       ELSE \E response \in PlannerResponses : LET plans == generate_plan(response) IN
            /\ guidance_prompt_segment' =
                    prepare_planner_guidance_prompt(previous_review_guidance, full_history)
            /\ planner_calls' = Append(planner_calls,
                    [iteration |-> current_iteration + 1,
                     guidance |-> previous_review_guidance,
                     history_len |-> Len(full_history),
                     review_guidance_str |-> guidance_prompt_segment',
                     plans |-> plans])
            /\ IF NoInitialPlan(plans, full_history)
               THEN /\ pc' = "returned"
                    /\ result' = Some(ErrNoInitialPlan)
                    /\ UNCHANGED exec_vars
               ELSE /\ pc' = ExecEntry(plans).pc
                    /\ ExecStart(plans)
                    /\ UNCHANGED <<result, think_calls>>
    /\ full_history' = HistoryAfterTranslation(previous_review_guidance, full_history)
    /\ UNCHANGED <<max_iterations, iterations_no_progress, previous_review_guidance,
                   review_calls, synth_calls>>

\* Variant: the counter is incremented before the review is called.
ReviewCall_counted ==
    [current_iteration |-> current_iteration,
     iterations_no_progress |-> iterations_no_progress + 1,
     STAGNATION_THRESHOLD |-> STAGNATION_THRESHOLD,
     plans_with_responses |-> exploration_plans]

ReviewCall ==
    [current_iteration |-> current_iteration,
     iterations_no_progress |-> iterations_no_progress,
     STAGNATION_THRESHOLD |-> STAGNATION_THRESHOLD,
     plans_with_responses |-> exploration_plans]

\* client.reviewer_call raises (or returns something that is no ReviewerOut): the
\* except branch of ReviewerAgent.review builds the fallback ReviewerOut
ReviewFails ==
    /\ pc = "reviewing"
    /\ review_calls' = Append(review_calls, ReviewCall @@ [returned |-> None])
    /\ IF ReviewerOutRejects(FallbackKwargs)
       THEN \* the ValidationError leaves review() and run()
            /\ pc' = "raised"
            /\ UNCHANGED <<full_history, previous_review_guidance, iterations_no_progress>>
       ELSE LET fallback == ExtendedReview(ErrorInReviewProcessing, None,
                                ExtendedGuidance("HALT_NO_FEASIBLE_PATH", None, None))
            IN /\ full_history' = AppendRecord(full_history, exploration_plans, fallback)
               /\ previous_review_guidance' = Some(fallback.next_iteration_guidance)
               /\ iterations_no_progress' = NextNoProgress(iterations_no_progress, fallback)
               /\ pc' = "synthesizing"
    /\ UNCHANGED <<max_iterations, current_iteration, guidance_prompt_segment, result,
                   planner_calls, synth_calls, exec_vars>>

\* client.reviewer_call returns a ReviewerOut: the rest of the loop body
ReviewReturns ==
    /\ pc = "reviewing"
    /\ \E review \in ReviewResults :
        /\ review_calls' = Append(review_calls, ReviewCall @@ [returned |-> Some(review)])
        /\ full_history' = AppendRecord(full_history, exploration_plans, review)
        /\ previous_review_guidance' = Some(review.next_iteration_guidance)
        /\ IF ~HasAttr(review, "iteration_assessment") \/ ~HasAttr(review, "selected_context")
           THEN \* AttributeError at the first read of review_obj.iteration_assessment
                /\ pc' = "raised"
                /\ UNCHANGED iterations_no_progress
           ELSE /\ iterations_no_progress' = NextNoProgress(iterations_no_progress, review)
                /\ pc' = AfterReview(review, iterations_no_progress', current_iteration,
                                      max_iterations)
    /\ UNCHANGED <<max_iterations, current_iteration, guidance_prompt_segment, result,
                   planner_calls, synth_calls, exec_vars>>

SynthCall ==
    [process_history |-> ProcessHistory(full_history),
     selected_responses |->
        build_selected_responses_segment(FinalSelectedContext(full_history), full_history)]

\* after the loop: synthesizer.synthesize returns the final answer
SynthReturns ==
    /\ pc = "synthesizing"
    /\ IF full_history = <<>>
       THEN /\ result' = Some(ErrNoHistory)
            /\ pc' = "returned"
            /\ UNCHANGED synth_calls
       ELSE IF ProcessHistoryAttributeError(full_history)
       THEN /\ pc' = "raised"
            /\ UNCHANGED <<result, synth_calls>>
       ELSE /\ synth_calls' = Append(synth_calls, SynthCall @@ [returned |-> Some(SynthesizedAnswer)])
            /\ result' = Some(SynthesizedAnswer)
            /\ pc' = "returned"
    /\ UNCHANGED <<max_iterations, current_iteration, iterations_no_progress,
                   previous_review_guidance, guidance_prompt_segment, full_history,
                   planner_calls, review_calls, exec_vars>>

\* after the loop: client.synthesizer_call raises, and nothing catches it
SynthRaises ==
    /\ pc = "synthesizing"
    /\ full_history # <<>>
    /\ ~ProcessHistoryAttributeError(full_history)
    /\ synth_calls' = Append(synth_calls, SynthCall @@ [returned |-> None])
    /\ pc' = "raised"
    /\ UNCHANGED <<max_iterations, current_iteration, iterations_no_progress,
                   previous_review_guidance, guidance_prompt_segment, full_history, result,
                   planner_calls, review_calls, exec_vars>>

Init ==
    /\ pc = "planning"
    /\ max_iterations \in (-1)..MaxIterBound
    /\ current_iteration = 0
    /\ iterations_no_progress = 0
    /\ previous_review_guidance = None
    /\ guidance_prompt_segment = None
    /\ full_history = <<>>
    /\ result = None
    /\ exploration_plans = <<>>
    /\ completed_step_outputs = <<>>
    /\ executed_step_qnames = {}
    /\ pass_num = 0
    /\ executed_in_this_pass = 0
    /\ cursor = 1
    /\ exit_reason = "empty"
    /\ think_calls = <<>>
    /\ planner_calls = <<>>
    /\ review_calls = <<>>
    /\ synth_calls = <<>>

Next ==
    \/ PlanStage
    \/ ThinkReturns
    \/ ThinkRaises
    \/ EndPass
    \/ ReviewFails
    \/ ReviewReturns
    \/ SynthReturns
    \/ SynthRaises

Spec == Init /\ [][Next]_vars

\* every stage call is a blocking call that returns or raises, and run() then goes on
FairSpec == Spec /\ WF_vars(Next)

----------------------------------------------------------------------------
(* The executor alone, called once on any plan list of the universe *)

\* plan lists: plan p alone, or plan p (possibly without steps) followed by plan q
PlanList(f, g) ==
    IF g = <<>> THEN <<NewPlan(PlanP, f)>> ELSE <<NewPlan(PlanP, f), NewPlan(PlanQ, g)>>

ExecInit ==
    /\ \E n \in 0..MaxSteps : \E k \in 0..n :
         \E f \in [1..k -> StepChoicesP] : \E g \in [1..(n - k) -> StepChoicesQ] :
            exploration_plans = PlanList(f, g)
    /\ pc = ExecEntry(exploration_plans).pc
    /\ exit_reason = ExecEntry(exploration_plans).exit
    /\ completed_step_outputs = <<>>
    /\ executed_step_qnames = {}
    /\ pass_num = 0
    /\ executed_in_this_pass = 0
    /\ cursor = 1
    /\ think_calls = <<>>
    /\ max_iterations = 1
    /\ current_iteration = 1
    /\ iterations_no_progress = 0
    /\ previous_review_guidance = None
    /\ guidance_prompt_segment = None
    /\ full_history = <<>>
    /\ result = None
    /\ planner_calls = <<>>
    /\ review_calls = <<>>
    /\ synth_calls = <<>>

ExecNext == ThinkReturns \/ ThinkRaises \/ EndPass

ExecSpec == ExecInit /\ [][ExecNext]_vars

----------------------------------------------------------------------------
(* The guidance translator alone: one call of
   Orchestrator._prepare_planner_guidance_prompt(previous_review_guidance, full_history) *)

\* a NextIterationGuidance as schemas.py declares it, with its optional fields
DeclaredGuidanceWith(action, tp, ts, focus, excluded, strategy, dfs) ==
    [action |-> action, reasoning |-> "because",
     target_plan_id |-> tp, target_step_id |-> ts,
     suggested_modifications_or_focus |-> focus, excluded_strategies |-> excluded,
     new_strategy_suggestion |-> strategy, current_dfs_path_summary |-> dfs]

\* an instance of a subclass that also has the attributes main.py reads, each giving
\* the declared field it stands for
ExtendedGuidanceWith(action, tp, ts, focus, excluded, strategy, dfs) ==
    DeclaredGuidanceWith(action, tp, ts, focus, excluded, strategy, dfs)
    @@ [refinement_details |-> focus, suggested_strategy |-> strategy,
        dfs_path_summary |-> dfs]

\* the guidance objects the translator is called with; a target id may be None or ""
GuidanceInputs ==
    {DeclaredGuidanceWith(a, tp, ts, f, e, st, d) :
        a \in Actions, tp \in {None, Some(PlanP)},
        ts \in {None, Some(<<>>), Some(StepA), Some(StepB)},
        f \in {None, Some("focus")}, e \in {None, Some(<<"tried">>)},
        st \in {None, Some("other")}, d \in {None, Some("path")}}
    \cup
    {ExtendedGuidanceWith(a, tp, ts, f, e, st, d) :
        a \in Actions, tp \in {None, Some(PlanP)},
        ts \in {None, Some(<<>>), Some(StepA), Some(StepB)},
        f \in {None, Some("focus")}, e \in {None, Some(<<"tried">>)},
        st \in {None, Some("other")}, d \in {None, Some("path")}}

\* a step as a history record holds it: with its instructions and the response the
\* executor left (None for a step that was never executed)
RecordedStep(sid, instructions, response) ==
    [NewStep(sid, None) EXCEPT !.instructions = instructions, !.response = response]

\* the plan lists of the records: no plans; plan p with step a answered; plan p with
\* step a answered by the empty string; plan p with step a unexecuted and step b
\* answered; plan q with a step a
RecordedPlanLists ==
    {<<>>,
     <<NewPlan(PlanP, <<RecordedStep(StepA, "do", Some("A-result"))>>)>>,
     <<NewPlan(PlanP, <<RecordedStep(StepA, "do again", Some(""))>>)>>,
     <<NewPlan(PlanP, <<RecordedStep(StepA, "do", None),
                        RecordedStep(StepB, "do", Some("B-result"))>>)>>,
     <<NewPlan(PlanQ, <<RecordedStep(StepA, "do", Some("A-result"))>>)>>}

\* full_history.append({"plans_with_responses": ..., "review": ...}); the translator
\* reads no review
HistoryRecords ==
    {[plans_with_responses |-> plans,
      review |-> ExtendedReview("fine", None, ExtendedGuidance("BROADEN", None, None))] :
        plans \in RecordedPlanLists}

\* the histories of the iterations before a planning call
HistoryInputs ==
    UNION {[1..n -> HistoryRecords] : n \in 0..(MaxIterBound - 1)}

TranslateInit ==
    /\ pc = "translating"
    /\ previous_review_guidance \in {None} \cup {Some(g) : g \in GuidanceInputs}
    /\ full_history \in HistoryInputs
    /\ guidance_prompt_segment = None
    /\ max_iterations = MaxIterBound
    /\ current_iteration = Len(full_history) + 1
    /\ iterations_no_progress = 0
    /\ result = None
    /\ exploration_plans = <<>>
    /\ completed_step_outputs = <<>>
    /\ executed_step_qnames = {}
    /\ pass_num = 0
    /\ executed_in_this_pass = 0
    /\ cursor = 1
    /\ exit_reason = "empty"
    /\ think_calls = <<>>
    /\ planner_calls = <<>>
    /\ review_calls = <<>>
    /\ synth_calls = <<>>

\* the call returns the directive (None without guidance)
TranslateReturns ==
    /\ pc = "translating"
    /\ previous_review_guidance # None
            => ~GuidanceAttributeError(Val(previous_review_guidance))
    /\ guidance_prompt_segment' =
            prepare_planner_guidance_prompt(previous_review_guidance, full_history)
    /\ full_history' = HistoryAfterTranslation(previous_review_guidance, full_history)
    /\ pc' = "translated"
    /\ UNCHANGED <<max_iterations, current_iteration, iterations_no_progress,
                   previous_review_guidance, result, planner_calls, review_calls,
                   synth_calls, exec_vars>>

\* the call raises AttributeError at an attribute the guidance object does not have
TranslateRaises ==
    /\ pc = "translating"
    /\ previous_review_guidance # None
    /\ GuidanceAttributeError(Val(previous_review_guidance))
    /\ full_history' = HistoryAfterTranslation(previous_review_guidance, full_history)
    /\ pc' = "raised"
    /\ UNCHANGED <<max_iterations, current_iteration, iterations_no_progress,
                   previous_review_guidance, guidance_prompt_segment, result,
                   planner_calls, review_calls, synth_calls, exec_vars>>

TranslateNext == TranslateReturns \/ TranslateRaises

TranslateSpec == TranslateInit /\ [][TranslateNext]_vars

----------------------------------------------------------------------------
(* The planning stage alone: one call of PlannerAgent.generate_plan, observed with
   the answer the client got *)

MaxAnswerPlans == 6

\* the plans of an answer: a plan with a strategy, with a strategy inside
\* whitespace, with a whitespace strategy, with an empty strategy
AnswerPlans ==
    {NewPlan(PlanP, <<NewStep(StepA, None)>>)}
    \cup {[NewPlan(PlanQ, <<>>) EXCEPT !.strategy = strategy] :
            strategy \in {<<" ", "s", " ">>, <<" ", "\t">>, <<>>}}

PlannerAnswers == UNION {[1..n -> AnswerPlans] : n \in 0..MaxAnswerPlans}

PlannerInit ==
    /\ pc = "planning"
    /\ max_iterations = MaxIterBound
    /\ current_iteration = 0
    /\ iterations_no_progress = 0
    /\ previous_review_guidance = None
    /\ guidance_prompt_segment = None
    /\ full_history = <<>>
    /\ result = None
    /\ exploration_plans = <<>>
    /\ completed_step_outputs = <<>>
    /\ executed_step_qnames = {}
    /\ pass_num = 0
    /\ executed_in_this_pass = 0
    /\ cursor = 1
    /\ exit_reason = "empty"
    /\ think_calls = <<>>
    /\ planner_calls = <<>>
    /\ review_calls = <<>>
    /\ synth_calls = <<>>

\* exploration_plans = self.planner.generate_plan(task, guidance_prompt_segment)
GeneratePlan ==
    /\ pc = "planning"
    /\ \E response \in PlannerAnswers :
        /\ planner_calls' = Append(planner_calls,
                [response |-> response, plans |-> generate_plan(response)])
        /\ exploration_plans' = generate_plan(response)
    /\ current_iteration' = current_iteration + 1
    /\ pc' = "planned"
    /\ UNCHANGED <<max_iterations, iterations_no_progress, previous_review_guidance,
                   guidance_prompt_segment, full_history, result, think_calls,
                   review_calls, synth_calls, completed_step_outputs,
                   executed_step_qnames, pass_num, executed_in_this_pass, cursor,
                   exit_reason>>

PlannerNext == GeneratePlan

PlannerSpec == PlannerInit /\ [][PlannerNext]_vars

----------------------------------------------------------------------------
(* Vocabulary of the executor claims *)

Steps == all_steps_to_process(exploration_plans)
StepSet == {Steps[k] : k \in 1..Len(Steps)}
StepOf(ij) == StepAt(exploration_plans, ij)
QNameOf(ij) == step_qname(exploration_plans, ij)
DepSet(ij) == {DepsOf(StepOf(ij))[k] : k \in 1..Len(DepsOf(StepOf(ij)))}
QNames == {QNameOf(ij) : ij \in StepSet}

\* the executor has returned to run()
ExecReturned == pc = "reviewing"

\* think calls made for the step at ij by the current call of the executor
CallsFor(ij) ==
    {n \in 1..Len(think_calls) :
        think_calls[n].iteration = current_iteration /\ think_calls[n].at = ij}

Responded(ij) == StepOf(ij).response # None

\* the dependency graph on qualified ids: <<q, D>> for each step named q listing D
NamedDeps == {<<QNameOf(ij), DepSet(ij)>> : ij \in StepSet}

RECURSIVE ReachableFrom(_, _, _)
\* qualified ids reachable from the set S in one to k+1 hops
ReachableFrom(nd, S, k) ==
    LET next == UNION {e[2] : e \in {x \in nd : x[1] \in S}}
    IN IF k = 0 THEN next ELSE next \cup ReachableFrom(nd, next, k - 1)

Acyclic ==
    LET nd == NamedDeps
    IN \A e \in nd : e[1] \notin ReachableFrom(nd, {e[1]}, Cardinality(nd))
NoDanglingRefs == LET names == QNames IN \A ij \in StepSet : DepSet(ij) \subseteq names
DistinctQNames == \A x, y \in StepSet : QNameOf(x) = QNameOf(y) => x = y

RECURSIVE SatisfiableFrom(_, _, _)
\* k rounds of "names of the steps all of whose dependencies are in the set"
SatisfiableFrom(nd, S, k) ==
    IF k = 0 THEN S
    ELSE SatisfiableFrom(nd, {e[1] : e \in {x \in nd : x[2] \subseteq S}}, k - 1)

\* least fixed point of "some step of this name has all its dependencies in the set"
Satisfiable == LET nd == NamedDeps IN SatisfiableFrom(nd, {}, Cardinality(nd))

----------------------------------------------------------------------------
(* C1 *)

\* C1: think is never invoked for a step s before every qualified id listed in
\* s.dependencies has an entry in completed_step_outputs, for every plan list.
C1_DependenciesRecordedBeforeThink ==
    \A n \in 1..Len(think_calls) :
        DepSet(think_calls[n].at) \subseteq think_calls[n].outputs_at_call

\* a step with two dependencies has been handed to think, and so has a step that
\* had to wait for a later pass
C1_Witness ==
    /\ \E n \in 1..Len(think_calls) : Cardinality(DepSet(think_calls[n].at)) = 2
    /\ \E n \in 1..Len(think_calls) :
            think_calls[n].pass = 2 /\ DepSet(think_calls[n].at) # {}

----------------------------------------------------------------------------
(* C2 *)

\* a step's response is what its one returning think call returned, and absent
\* as long as no think call for it has returned
ResponseFromOwnCall(ij) ==
    IF \E n \in CallsFor(ij) : think_calls[n].returned # None
    THEN \A n \in CallsFor(ij) : StepOf(ij).response = think_calls[n].returned
    ELSE StepOf(ij).response = None

\* C2 as stated: once the executor has returned, think has been invoked exactly
\* once for every step of every plan, and the response is that invocation's.
C2_ExactlyOncePerStep ==
    ExecReturned =>
        \A ij \in StepSet : Cardinality(CallsFor(ij)) = 1 /\ ResponseFromOwnCall(ij)

\* C2 amended: think is invoked at most once for every step (exactly once, when
\* the executor returns, if the qualified ids are distinct and the dependency
\* references are acyclic and name steps of the list); a response is written only
\* by that invocation and is absent before it.
C2_AtMostOncePerStep ==
    /\ \A ij \in StepSet : Cardinality(CallsFor(ij)) <= 1 /\ ResponseFromOwnCall(ij)
    /\ (ExecReturned /\ DistinctQNames /\ NoDanglingRefs /\ Acyclic) =>
            \A ij \in StepSet : Cardinality(CallsFor(ij)) = 1

\* three steps executed over three passes, one call each
C2_Witness ==
    /\ ExecReturned
    /\ pass_num = 3
    /\ Len(Steps) = 3
    /\ \A ij \in StepSet : Cardinality(CallsFor(ij)) = 1 /\ Responded(ij)

----------------------------------------------------------------------------
(* C3 *)

\* C3 as stated: for a plan list whose references are acyclic and all name steps
\* of the list, the executor returns with every response populated.
C3_AcyclicAllPopulated ==
    (ExecReturned /\ NoDanglingRefs /\ Acyclic) => \A ij \in StepSet : Responded(ij)

\* C3 amended: for a plan list whose references are acyclic and all name steps of
\* the list, and whose qualified ids are pairwise distinct, the executor returns
\* with every response populated, in any declared order; such a run ends because
\* every step was executed, never because the passes ran out.
C3_AcyclicDistinctAllPopulated ==
    (ExecReturned /\ NoDanglingRefs /\ Acyclic /\ DistinctQNames) =>
        /\ \A ij \in StepSet : Responded(ij)
        /\ exit_reason = "all_executed"

\* the chain p.a -> p.b -> q.a listed in reverse order of execution, completed
C3_Witness ==
    /\ ExecReturned /\ NoDanglingRefs /\ Acyclic /\ DistinctQNames
    /\ Len(Steps) = 3
    /\ DepSet(Steps[1]) = {QNameOf(Steps[2])}
    /\ DepSet(Steps[2]) = {QNameOf(Steps[3])}
    /\ DepSet(Steps[3]) = {}
    /\ \A ij \in StepSet : Responded(ij)

----------------------------------------------------------------------------
(* C10 *)

\* the steps resting, directly or through other steps, on a dangling or malformed
\* reference or on a cycle
UnsatisfiableSteps == LET sat == Satisfiable IN {ij \in StepSet : ~(DepSet(ij) \subseteq sat)}

\* a step resting on a dangling reference or on a cycle is never handed to think
\* and keeps its response unset; the executor itself never raises (pc = "raised"
\* only when a think call raised)
C10_UnsatisfiableLeftAlone ==
    /\ \A ij \in UnsatisfiableSteps : CallsFor(ij) = {} /\ ~Responded(ij)
    /\ pc = "raised" =>
            think_calls # <<>> /\ think_calls[Len(think_calls)].returned = None

\* C10 as stated: a step resting on a dangling reference or on a cycle is never
\* handed to think and keeps its response unset, the executor does not raise, and
\* every step whose dependencies are satisfiable is still executed.
C10_EverySatisfiableExecuted ==
    /\ C10_UnsatisfiableLeftAlone
    /\ ExecReturned => \A ij \in StepSet \ UnsatisfiableSteps : Responded(ij)

\* C10 amended: a step resting on a dangling reference or on a cycle is never
\* handed to think and keeps its response unset, the executor does not raise, and
\* every step whose dependencies are satisfiable and whose qualified id no other
\* step of the list has is still executed.
C10_EverySatisfiableDistinctExecuted ==
    /\ C10_UnsatisfiableLeftAlone
    /\ ExecReturned =>
            \A ij \in StepSet \ UnsatisfiableSteps :
                (\A x \in StepSet : QNameOf(x) = QNameOf(ij) => x = ij) => Responded(ij)

\* returned with one step left on a dangling reference, one left on a cycle with
\* itself, and a third executed
C10_Witness ==
    /\ ExecReturned
    /\ exit_reason = "no_progress"
    /\ \E x, y, z \in StepSet :
            /\ DepSet(x) # {} /\ DepSet(x) \cap QNames = {} /\ ~Responded(x)
            /\ QNameOf(y) \in DepSet(y) /\ ~Responded(y)
            /\ Responded(z)

----------------------------------------------------------------------------
(* C11 *)

\* the think calls made during pass k
CallsInPass(k) == {n \in 1..Len(think_calls) : think_calls[n].pass = k}

\* steps remain pending: fewer executed qualified ids than steps
StepsPending == Cardinality(executed_step_qnames) < Len(Steps)

\* C11 as stated: for every dependency graph the executor makes at most
\* step-count + 1 passes (numbered from 0), and it stops as soon as a full pass
\* executes no new step while steps remain pending: no pass that executed nothing
\* is followed by another pass.
C11_StopsAtFirstIdlePass ==
    /\ pass_num <= Len(Steps)
    /\ \A k \in 0..(pass_num - 1) : CallsInPass(k) # {}

\* C11 amended: at most step-count + 1 passes are made, and the executor stops at
\* the end of the first pass after pass 0 that executes no new step while steps
\* remain pending; a pass 0 that executes nothing is followed by pass 1.  The
\* pass cap itself never ends the executor.
C11_StopsAtFirstIdleLaterPass ==
    /\ pass_num <= Len(Steps)
    /\ \A k \in 1..(pass_num - 1) : CallsInPass(k) # {}
    /\ exit_reason = "no_progress" =>
            pass_num >= 1 /\ CallsInPass(pass_num) = {} /\ StepsPending
    /\ exit_reason # "passes_exhausted"
    /\ (ExecReturned /\ StepsPending) => exit_reason = "no_progress"

\* a list with a step on a cycle or a dangling reference: passes 0 and 1 each
\* executed a step, pass 2 executed nothing and ended the executor
C11_Witness ==
    /\ ExecReturned
    /\ exit_reason = "no_progress"
    /\ pass_num = 2
    /\ CallsInPass(0) # {} /\ CallsInPass(1) # {}
    /\ \E ij \in StepSet : ~Responded(ij)

----------------------------------------------------------------------------
(* C12 *)

\* pass 0 of the executor has been completed
FirstPassOver == pass_num >= 1 \/ ExecReturned

\* the step at ij was executed during pass 0
ExecutedInFirstPass(ij) == \E n \in CallsFor(ij) : think_calls[n].pass = 0

\* C12 as stated: every step with no dependencies (absent or empty list) is
\* executed during the executor's first pass, for every plan list.
C12_NoDependencyFirstPass ==
    FirstPassOver =>
        \A ij \in StepSet : DepSet(ij) = {} => ExecutedInFirstPass(ij)

\* C12 amended: every step with no dependencies whose qualified id no other step
\* of the list has is executed during the executor's first pass.
C12_NoDependencyDistinctFirstPass ==
    FirstPassOver =>
        \A ij \in StepSet :
            (DepSet(ij) = {} /\ \A x \in StepSet : QNameOf(x) = QNameOf(ij) => x = ij)
                => ExecutedInFirstPass(ij)

\* a step with dependencies absent and a step with an empty dependencies list, both
\* executed in pass 0, while a third step had to wait for pass 1
C12_Witness ==
    /\ pass_num >= 1
    /\ \E x, y, z \in StepSet :
            /\ StepOf(x).dependencies = None /\ ExecutedInFirstPass(x)
            /\ StepOf(y).dependencies = Some(<<>>) /\ ExecutedInFirstPass(y)
            /\ DepSet(z) # {} /\ CallsFor(z) # {} /\ ~ExecutedInFirstPass(z)

----------------------------------------------------------------------------
(* Vocabulary of the run() claims *)

LoopLeft == pc \in {"synthesizing", "returned", "raised"}
RunOver == pc \in {"returned", "raised"}

\* the loop was left by an exception (not by break or return)
LoopRaised == pc = "raised" /\ synth_calls = <<>>

ReviewReturned(n) == review_calls[n].returned # None
ReviewOf(n) == Val(review_calls[n].returned)

\* the assessment text of a review result (the declared field; a subclass instance
\* carries the same text as iteration_assessment)
AssessmentOf(review) == review.assessment_of_current_iteration

\* planning and thinking never failed: every planner call gave plans, every think
\* call returned
OtherStagesFine ==
    /\ \A n \in 1..Len(planner_calls) : planner_calls[n].plans # <<>>
    /\ \A n \in 1..Len(think_calls) : think_calls[n].returned # None

----------------------------------------------------------------------------
(* C4 *)

\* C4: when the review stage returns a non-halting action on every call and never
\* fails (and planning and thinking succeed, max_iterations >= 1), the loop is left
\* by break after exactly max_iterations planning calls and max_iterations review
\* calls.
C4_ExactlyMaxIterations ==
    ( /\ LoopLeft
      /\ max_iterations >= 1
      /\ OtherStagesFine
      /\ \A n \in 1..Len(review_calls) :
            /\ ReviewReturned(n)
            /\ ReviewOf(n).next_iteration_guidance.action \notin HaltActions
            /\ AssessmentOf(ReviewOf(n)) # ErrorInReviewProcessing )
    => /\ ~LoopRaised
       /\ Len(planner_calls) = max_iterations
       /\ Len(review_calls) = max_iterations

----------------------------------------------------------------------------
(* C5 *)

\* C5 as stated (its bound): the number of completed iterations, one history record
\* each, never exceeds the configured maximum (here for a maximum of 0 or more).
C5_IterationsWithinMaximum == max_iterations >= 0 => Len(full_history) <= max_iterations

AtLeastOne(n) == IF n < 1 THEN 1 ELSE n

\* C5 amended: for every sequence of stage outcomes the loop is eventually left, and
\* the number of iterations never exceeds the configured maximum, or 1 when the
\* configured maximum is below 1.
C5_LoopExitsWithinCap ==
    /\ [](current_iteration <= AtLeastOne(max_iterations)
          /\ Len(full_history) <= AtLeastOne(max_iterations))
    /\ <>LoopLeft

\* a run of three iterations that the cap, not the reviewer, stopped
C5_Witness ==
    /\ pc = "synthesizing"
    /\ max_iterations = 3
    /\ Len(full_history) = 3
    /\ ~ReviewerHalts(full_history[3].review)

----------------------------------------------------------------------------
(* C6 *)

\* C6: when the review call raises, the exception does not leave run(); a record
\* whose review is the fallback (HALT_NO_FEASIBLE_PATH, "ERROR_IN_REVIEW_PROCESSING",
\* no selected context) is appended to history, and no further iteration starts.
C6_ReviewFailureFallback ==
    \A n \in 1..Len(review_calls) :
        ~ReviewReturned(n) =>
            /\ ~LoopRaised
            /\ Len(full_history) >= n
            /\ full_history[n].review.next_iteration_guidance.action = "HALT_NO_FEASIBLE_PATH"
            /\ AssessmentOf(full_history[n].review) = ErrorInReviewProcessing
            /\ Len(planner_calls) = n

----------------------------------------------------------------------------
(* C7 *)

\* C7: no exception escapes run(); when run() is over it has returned a string.
C7_RunAlwaysReturnsString == pc # "raised" /\ (RunOver => result # None)

----------------------------------------------------------------------------
(* C8 *)

StopCondition(n) ==
    \/ ReviewOf(n).next_iteration_guidance.action \in HaltActions
    \/ AssessmentOf(ReviewOf(n)) = ErrorInReviewProcessing
    \/ n >= max_iterations

\* C8: after iteration n's review the loop stops if and only if the action is a
\* halt action, the assessment is "ERROR_IN_REVIEW_PROCESSING" or n has reached
\* max_iterations; otherwise iteration n+1 starts and its planning call gets the
\* guidance of iteration n's review.
C8_HaltIffCondition ==
    \A n \in 1..Len(review_calls) :
        ReviewReturned(n) =>
            IF StopCondition(n)
            THEN Len(planner_calls) = n /\ LoopLeft
            ELSE \/ n = Len(review_calls) /\ pc = "planning" /\ Len(planner_calls) = n
                 \/ /\ Len(planner_calls) > n
                    /\ planner_calls[n + 1].guidance = Some(ReviewOf(n).next_iteration_guidance)

----------------------------------------------------------------------------
(* C9 *)

RECURSIVE TrailingNoProgress(_, _)
\* the number of consecutive most recent records, of the first n, whose review has
\* an absent or empty selected_context
TrailingNoProgress(history, n) ==
    IF n = 0 \/ TruthyList(history[n].review.selected_context) THEN 0
    ELSE 1 + TrailingNoProgress(history, n - 1)

----------------------------------------------------------------------------
(* C13 *)

\* the planning call of iteration n gave no plans (it returned nothing usable or
\* its client call raised: generate_plan returns [] in both cases)
NoPlansOn(n) == Len(planner_calls) >= n /\ planner_calls[n].plans = <<>>

\* C13: if the planning stage yields zero plans on iteration 1, run returns the
\* error string at once: no thinking, review or synthesis call is ever made, no
\* second planning call, and history stays empty.
C13_NoInitialPlanAborts ==
    NoPlansOn(1) =>
        /\ pc = "returned"
        /\ result = Some(ErrNoInitialPlan)
        /\ Len(planner_calls) = 1
        /\ think_calls = <<>> /\ review_calls = <<>> /\ synth_calls = <<>>
        /\ full_history = <<>>

\* the run is over after a first planning call without plans
C13_Witness ==
    /\ NoPlansOn(1)
    /\ pc = "returned"
    /\ result = Some(ErrNoInitialPlan)

----------------------------------------------------------------------------
(* C14 *)

\* the think calls made during iteration n
ThinkCallsOf(n) == {k \in 1..Len(think_calls) : think_calls[k].iteration = n}

\* what follows the review of iteration n is what follows the review of any
\* iteration: the loop is left on a halt action, on the error assessment or at the
\* iteration cap, and otherwise iteration n + 1 is planned with this review's guidance
DecisionTakenFrom(n) ==
    IF StopCondition(n)
    THEN Len(planner_calls) = n /\ LoopLeft /\ ~LoopRaised
    ELSE \/ Len(planner_calls) = n /\ pc = "planning"
         \/ /\ Len(planner_calls) > n
            /\ planner_calls[n + 1].guidance = Some(ReviewOf(n).next_iteration_guidance)

----------------------------------------------------------------------------
(* C15 *)

\* one step of run() leaves history as it is or appends one record, the plan list
\* of the iteration just reviewed with the review just returned, after the records
\* already there
HistoryStep ==
    \/ full_history' = full_history
    \/ /\ Len(full_history') = Len(full_history) + 1
       /\ SubSeq(full_history', 1, Len(full_history)) = full_history
       /\ Len(full_history') = current_iteration
       /\ Len(review_calls') = current_iteration
       /\ review_calls'[current_iteration].returned # None
       /\ full_history'[current_iteration] =
              [plans_with_responses |-> exploration_plans,
               review |-> Val(review_calls'[current_iteration].returned)]

\* between two iterations, and once the loop has been left by break, history has
\* one record per iteration made
OneRecordPerIteration ==
    /\ Len(full_history) \in {current_iteration - 1, current_iteration} \cap Nat
    /\ pc \in {"planning", "synthesizing"} => Len(full_history) = current_iteration
    /\ \A n \in 1..Len(full_history) :
            /\ DOMAIN full_history[n] = {"plans_with_responses", "review"}
            /\ full_history[n].plans_with_responses = review_calls[n].plans_with_responses
            /\ full_history[n].review = ReviewOf(n)

\* C15: history is append-only: one record {plans_with_responses, review} is
\* appended per completed iteration, in iteration order, so that after iteration n
\* history has length n, and no later step of run() (a later iteration, the
\* guidance translator, synthesis) removes, reorders or changes a record.
C15_HistoryAppendOnly == []OneRecordPerIteration /\ [][HistoryStep]_vars

\* a run of three iterations with three different records, synthesized
C15_Witness ==
    /\ pc = "returned"
    /\ synth_calls # <<>>
    /\ Len(full_history) = 3
    /\ full_history[1] # full_history[2] /\ full_history[2] # full_history[3]
    /\ full_history[1].plans_with_responses # <<>>

----------------------------------------------------------------------------
(* C16 *)

\* a call is added to the log of a stage
Called(log) == log' # log

\* one step of run() makes a stage call only in that stage's turn: the planner when
\* every earlier iteration has been reviewed and recorded, the thinker after this
\* iteration's planning and before its review, the reviewer once per iteration
\* after the executor, the synthesizer after the loop
StageOrderStep ==
    /\ Called(planner_calls) =>
            /\ pc = "planning"
            /\ Len(planner_calls') = Len(planner_calls) + 1
            /\ planner_calls'[Len(planner_calls')].iteration = Len(planner_calls')
            /\ Len(review_calls) = Len(planner_calls)
            /\ Len(full_history) = Len(planner_calls)
            /\ \A n \in 1..Len(review_calls) : ReviewReturned(n)
    /\ Called(think_calls) =>
            /\ pc = "executing"
            /\ Len(planner_calls) = current_iteration
            /\ Len(review_calls) = current_iteration - 1
            /\ think_calls'[Len(think_calls')].iteration = current_iteration
    /\ Called(review_calls) =>
            /\ pc = "reviewing"
            /\ Len(review_calls') = Len(review_calls) + 1
            /\ Len(review_calls') = Len(planner_calls)
            /\ review_calls'[Len(review_calls')].current_iteration = Len(review_calls')
            /\ \A k \in ThinkCallsOf(current_iteration) : think_calls[k].returned # None
    /\ Called(synth_calls) => pc = "synthesizing" /\ Len(review_calls) = Len(planner_calls)

\* no call is made after a call that failed, except further planning after a
\* planner failure with history: a failed call is not made again
NoRetry ==
    /\ \A k \in 1..Len(think_calls) :
            think_calls[k].returned = None => k = Len(think_calls) /\ pc = "raised"
    /\ \A n \in 1..Len(review_calls) :
            ~ReviewReturned(n) => n = Len(review_calls) /\ Len(planner_calls) = n
    /\ \A n \in 1..Len(planner_calls) : planner_calls[n].iteration = n
    /\ Len(synth_calls) <= 1

----------------------------------------------------------------------------
(* C17 *)

\* C17: the synthesis stage is invoked exactly once per run, after the loop has
\* ended, whenever history is non-empty, and never with an empty history; a run
\* ends with an empty history only when the planning stage failed on iteration 1,
\* and then the error string is returned.
C17_SynthesisOncePerRun ==
    /\ Len(synth_calls) <= 1
    /\ synth_calls # <<>> => LoopLeft /\ synth_calls[1].process_history # <<>>
    /\ RunOver =>
            /\ full_history # <<>> <=> Len(synth_calls) = 1
            /\ full_history = <<>> => NoPlansOn(1) /\ result = Some(ErrNoInitialPlan)

----------------------------------------------------------------------------
(* Vocabulary of the synthesis claims *)

\* the synthesizer has been called; its one call
Synthesized == synth_calls # <<>>
SelectedInput == synth_calls[1].selected_responses

RECURSIVE SelectedIds(_)
\* the <<plan_id, step_id>> pairs a list of ContextSelection names, in order
SelectedIds(groups) ==
    IF groups = <<>> THEN <<>>
    ELSE [k \in 1..Len(Head(groups).step_ids) |->
            <<Head(groups).plan_id, Head(groups).step_ids[k]>>]
         \o SelectedIds(Tail(groups))

\* the <<plan_id, step_id>> pairs of the selected-responses input, in order
InputIds(input) == [k \in 1..Len(input) |-> <<input[k].plan_id, input[k].step_id>>]

\* what the review of record n selected
SelectionOf(n) == full_history[n].review.selected_context

----------------------------------------------------------------------------
(* C18 *)

----------------------------------------------------------------------------
(* C19 *)

\* the steps of record n, as index pairs
StepsOfRecord(n) ==
    LET all == all_steps_to_process(full_history[n].plans_with_responses)
    IN {all[k] : k \in 1..Len(all)}

\* the records, among those of history, with a step of qualified id q
RecordsWith(q) ==
    {n \in 1..Len(full_history) :
        \E ij \in StepsOfRecord(n) : step_qname(full_history[n].plans_with_responses, ij) = q}

\* the response text of the step of qualified id q in record n, as synthesis shows it
TextIn(n, q) ==
    LET plans == full_history[n].plans_with_responses
        ij == CHOOSE x \in StepsOfRecord(n) : step_qname(plans, x) = q
    IN IF TruthyStr(StepAt(plans, ij).response) THEN Val(StepAt(plans, ij).response)
       ELSE "N/A"

----------------------------------------------------------------------------
(* C20 *)

\* the planner returned one plan with the two independent steps a and b, every
\* think call returned its step's text, the review returned HALT_SUFFICIENT with
\* both steps selected, and the synthesizer call, if made, returned
EndToEndScenario ==
    /\ planner_calls # <<>>
    /\ planner_calls[1].plans = <<NewPlan(PlanP, <<NewStep(StepA, None), NewStep(StepB, None)>>)>>
    /\ \A k \in 1..Len(think_calls) :
            think_calls[k].returned \in {Some("A-result"), Some("B-result")}
    /\ review_calls # <<>> /\ ReviewReturned(1)
    /\ ReviewOf(1).next_iteration_guidance.action = "HALT_SUFFICIENT"
    /\ ReviewOf(1).context_to_use = SelectPAB
    /\ \A k \in 1..Len(synth_calls) : synth_calls[k].returned # None

\* C20: in that scenario the run makes exactly one iteration, calls the thinker
\* once per step, calls the synthesizer once with exactly the two response texts in
\* its selected-responses input, and returns the synthesizer's output.
C20_EndToEnd ==
    (EndToEndScenario /\ RunOver) =>
        /\ pc = "returned"
        /\ Len(planner_calls) = 1 /\ Len(review_calls) = 1 /\ Len(full_history) = 1
        /\ Len(think_calls) = 2
        /\ think_calls[1].qname = QName(PlanP, StepA)
        /\ think_calls[2].qname = QName(PlanP, StepB)
        /\ Len(synth_calls) = 1
        /\ SelectedInput # None
        /\ [k \in 1..Len(Val(SelectedInput)) |-> Val(SelectedInput)[k].text]
                = <<"A-result", "B-result">>
        /\ result = synth_calls[1].returned

----------------------------------------------------------------------------
(* C21 *)

----------------------------------------------------------------------------
(* Vocabulary of the translator claims *)

\* the translator has returned a directive for a guidance
Translated == pc = "translated" /\ previous_review_guidance # None
Guidance == Val(previous_review_guidance)
Directive == Val(guidance_prompt_segment)

\* the values of the lines of the directive that carry this label
LinesOf(label) == {Directive[k][2] : k \in {m \in 1..Len(Directive) : Directive[m][1] = label}}
Labels == {Directive[k][1] : k \in 1..Len(Directive)}

\* the guidance names a target step: both ids are set
TargetSet(g) == g.target_plan_id \notin {None, Some(<<>>)} /\ g.target_step_id \notin {None, Some(<<>>)}

\* the steps of record n with the plan id and step id the guidance names
TargetStepsIn(n) ==
    LET plans == full_history[n].plans_with_responses
    IN {plans[i].steps[j] : <<i, j>> \in
            {ij \in (1..Len(plans)) \X (1..MaxSteps) :
                /\ ij[2] <= Len(plans[ij[1]].steps)
                /\ plans[ij[1]].plan_id = Val(Guidance.target_plan_id)
                /\ plans[ij[1]].steps[ij[2]].step_id = Val(Guidance.target_step_id)}}

RecordsWithTarget == {n \in 1..Len(full_history) : TargetStepsIn(n) # {}}
NewestWithTarget == CHOOSE n \in RecordsWithTarget : \A m \in RecordsWithTarget : m <= n

\* a response as the directive shows it
ShownOutput(step) ==
    IF step.response \in {None, Some("")} THEN NoResponseRecorded ELSE Val(step.response)

----------------------------------------------------------------------------
(* C22 *)

----------------------------------------------------------------------------
(* C23 *)

TargetLabels == {"Target Plan ID", "Target Step ID", "Previous output of target step",
                 "Original instruction of target step"}

\* C23: for a DEEPEN, CONTINUE_DFS_PATH or RETRY_STEP_WITH_MODIFICATION guidance whose
\* target_plan_id or target_step_id is missing, the translator does not fail, and
\* the directive it returns carries the warning line and no line about a target step.
C23_MissingTargetWarns ==
    (/\ pc # "translating"
     /\ previous_review_guidance # None
     /\ Guidance.action \in TargetActions
     /\ ~TargetSet(Guidance))
    => /\ pc = "translated"
       /\ "Warning" \in Labels
       /\ Labels \cap TargetLabels = {}

----------------------------------------------------------------------------
(* C24 *)

\* the flag of a recorded review, under the name the spec gives it or under the
\* name schemas.py declares
SynthesisReady(review) ==
    IF HasAttr(review, "synthesis_ready") THEN review.synthesis_ready
    ELSE review.is_sufficient_for_synthesis

\* C24: every review result recorded in the history has synthesis_ready = True
\* exactly when the action of its guidance is HALT_SUFFICIENT.
C24_SynthesisReadyIffHaltSufficient ==
    \A n \in 1..Len(full_history) :
        SynthesisReady(full_history[n].review)
            <=> full_history[n].review.next_iteration_guidance.action = "HALT_SUFFICIENT"

----------------------------------------------------------------------------
(* C25 *)

\* C25: a planner answer with more than 5 plans is rejected when the PlannerOut is
\* constructed, so the plan list generate_plan hands to the controller never has
\* more than 5 plans.
C25_AtMostFivePlans ==
    /\ Len(exploration_plans) <= 5
    /\ \A n \in 1..Len(planner_calls) :
          /\ Len(planner_calls[n].plans) <= 5
          /\ Len(planner_calls[n].response) > 5 => planner_calls[n].plans = <<>>

\* an answer of six plans, each with a strategy, gave the controller no plans
C25_Witness ==
    /\ pc = "planned"
    /\ Len(planner_calls[1].response) = 6
    /\ \A k \in 1..6 : Strip(planner_calls[1].response[k].strategy) # <<>>
    /\ exploration_plans = <<>>

----------------------------------------------------------------------------
(* C26 *)

\* C26: an ExplorationPlan whose strategy is empty or only whitespace is rejected at
\* construction, so no such plan is in the plan list the controller gets.
C26_NoBlankStrategy ==
    /\ \A k \in 1..Len(exploration_plans) :
          \E j \in 1..Len(exploration_plans[k].strategy) :
              ~IsSpace(exploration_plans[k].strategy[j])
    /\ \A n \in 1..Len(planner_calls) :
          (\E k \in 1..Len(planner_calls[n].response) :
              \A j \in 1..Len(planner_calls[n].response[k].strategy) :
                  IsSpace(planner_calls[n].response[k].strategy[j]))
          => planner_calls[n].plans = <<>>

\* an answer of two plans, the second with a whitespace strategy, gave the
\* controller no plans
C26_Witness ==
    /\ pc = "planned"
    /\ Len(planner_calls[1].response) = 2
    /\ planner_calls[1].response[1].strategy = Str("s")
    /\ planner_calls[1].response[2].strategy = <<" ", "\t">>
    /\ exploration_plans = <<>>

----------------------------------------------------------------------------
(* C27 *)

\* a review has returned, its record is appended and the bookkeeping is done
ReviewBookkept ==
    /\ pc = "reviewing"
    /\ pc' # "raised"
    /\ Len(full_history') = Len(full_history) + 1

\* the counter has reached the threshold while nothing else ends the loop
StagnationOnlyStep ==
    LET review == full_history'[Len(full_history')].review
    IN /\ ReviewBookkept
       /\ iterations_no_progress' >= STAGNATION_THRESHOLD
       /\ review.next_iteration_guidance.action \notin HaltActions
       /\ review.iteration_assessment # ErrorInReviewProcessing
       /\ current_iteration < max_iterations

ThresholdOnlyPassedOn ==
    \A n \in 1..Len(review_calls) :
        review_calls[n].STAGNATION_THRESHOLD = STAGNATION_THRESHOLD

----------------------------------------------------------------------------
(* C28 *)

\* run() raised while it processed the review of iteration n: the record is
\* appended, no later stage was called
RaisedProcessingReview(n) ==
    /\ LoopRaised
    /\ Len(review_calls) = n
    /\ Len(full_history) = n
    /\ Len(planner_calls) = n
    /\ current_iteration = n

\* C28: for every validated ReviewerOut with the fields schemas.py declares, the
\* controller's processing of it (history append, bookkeeping, halt check) completes
\* without raising: every field it reads is a declared field.
C28_DeclaredFieldsSuffice ==
    \A n \in 1..Len(review_calls) :
        (ReviewReturned(n) /\ DOMAIN ReviewOf(n) = ReviewerOutFields)
        => ~RaisedProcessingReview(n)

----------------------------------------------------------------------------
(* C29 *)

\* the lines that may follow the first two for an action, and those among them
\* that must be there because the field is present
LabelsFor(g) ==
    {"Suggested modifications or focus"}
    \cup (IF g.action \in TargetActions THEN TargetLabels \cup {"Warning"} ELSE {})
    \cup (IF g.action = "BROADEN" THEN {"Excluded strategies", "New strategy suggestion"}
          ELSE {})
    \cup (IF g.action = "CONTINUE_DFS_PATH" THEN {"Current DFS path summary"} ELSE {})

PresentLabels(g) ==
    (IF g.action = "BROADEN" /\ g.excluded_strategies \notin {None, Some(<<>>)}
     THEN {"Excluded strategies"} ELSE {})
    \cup (IF g.action = "BROADEN" /\ g.new_strategy_suggestion \notin {None, Some("")}
          THEN {"New strategy suggestion"} ELSE {})
    \cup (IF g.action = "CONTINUE_DFS_PATH" /\ g.current_dfs_path_summary \notin {None, Some("")}
          THEN {"Current DFS path summary"} ELSE {})

\* C29: for every guidance, whatever its action, the translator returns a directive
\* whose first line is the action and whose second is the reasoning, followed only
\* by the fields that apply to that action (BROADEN: the excluded strategies and the
\* suggested strategy when present; CONTINUE_DFS_PATH: the path summary when
\* present).
C29_DirectiveForEveryAction ==
    (pc # "translating" /\ previous_review_guidance # None)
    => /\ pc = "translated"
       /\ guidance_prompt_segment # None
       /\ Len(Directive) >= 2
       /\ Directive[1] = <<"action", Guidance.action>>
       /\ Directive[2] = <<"reasoning", Guidance.reasoning>>
       /\ \A k \in 3..Len(Directive) : Directive[k][1] \in LabelsFor(Guidance)
       /\ PresentLabels(Guidance) \subseteq Labels

----------------------------------------------------------------------------
(* C30 *)

\* C30: the guidance translator leaves the history as it was: the same records, in
\* the same order, with the same plans and reviews, whether it returns or raises.
C30_TranslatorKeepsHistory ==
    [][pc = "translating" => full_history' = full_history]_vars

\* the translator has looked up the target step through a history of two
\* different records and has returned
C30_Witness ==
    /\ Translated
    /\ Guidance.action = "CONTINUE_DFS_PATH"
    /\ TargetSet(Guidance)
    /\ Len(full_history) = 2
    /\ full_history[1] # full_history[2]
    /\ RecordsWithTarget = {1}
    /\ LinesOf("Previous output of target step") = {"A-result"}

----------------------------------------------------------------------------
(* C31 *)

\* a plan list without the responses of its steps
Skeleton(plans) ==
    [i \in 1..Len(plans) |->
        [plans[i] EXCEPT !.steps =
            [j \in 1..Len(plans[i].steps) |-> [plans[i].steps[j] EXCEPT !.response = None]]]]

\* the list the executor works on, and returns, is the list the planner gave in
\* this iteration but for the responses
SamePlansButResponses ==
    (pc \in {"executing", "reviewing"} /\ planner_calls # <<>>)
    => Skeleton(exploration_plans) = Skeleton(planner_calls[Len(planner_calls)].plans)

\* C31: the executor changes only the response field of steps: the plan list it
\* returns is the one it was given, with plan ids, strategies, step ids,
\* instructions, dependencies and the order of plans and steps unchanged, and it
\* never touches the plans recorded in the history by earlier iterations.
C31_ExecutorWritesResponsesOnly ==
    /\ []SamePlansButResponses
    /\ [][pc = "executing" =>
            /\ Skeleton(exploration_plans') = Skeleton(exploration_plans)
            /\ full_history' = full_history]_vars

\* the executor of iteration 2 has returned with both steps answered, with a record
\* of iteration 1 in the history that holds other responses
C31_Witness ==
    /\ pc = "reviewing"
    /\ current_iteration = 2
    /\ Len(full_history) = 1
    /\ \A ij \in StepSet : Responded(ij)
    /\ full_history[1].plans_with_responses # <<>>
    /\ full_history[1].plans_with_responses # exploration_plans

----------------------------------------------------------------------------
(* C32 *)

\* the output stored for the step named q by the think call that executed it
\* before call n
StoredBefore(n, q) ==
    {IF Val(think_calls[m].returned) = "" THEN NoResponseRecorded
     ELSE Val(think_calls[m].returned) :
        m \in {k \in 1..(n - 1) : think_calls[k].qname = q /\ think_calls[k].returned # None}}

\* C32: when a step with dependencies executes, think is called once for it, with one
\* dependency context that holds, for each declared dependency in declared order,
\* the output stored for that dependency when it executed; a step without
\* dependencies is called with no dependency context.
C32_OneContextInDeclaredOrder ==
    \A n \in 1..Len(think_calls) :
        LET call == think_calls[n]
            deps == DepsOf(StepOf(call.at))
            context == call.dependency_outputs_context
        IN /\ CallsFor(call.at) = {n}
           /\ IF deps = <<>> THEN context = None
              ELSE /\ context # None
                   /\ Len(Val(context)) = Len(deps)
                   /\ \A k \in 1..Len(deps) :
                        /\ QName(Val(context)[k].plan_id, Val(context)[k].step_id) = deps[k]
                        /\ StoredBefore(n, deps[k]) = {Val(context)[k].content}

\* step p.a, declared with the dependencies q.a and p.b in this order, was called
\* with the two outputs in this order, q.a having answered with the empty string
C32_Witness ==
    \E n \in 1..Len(think_calls) :
        /\ think_calls[n].qname = QName(PlanP, StepA)
        /\ DepsOf(StepOf(think_calls[n].at)) = <<QName(PlanQ, StepA), QName(PlanP, StepB)>>
        /\ think_calls[n].dependency_outputs_context =
                Some(<<[plan_id |-> PlanQ, step_id |-> StepA, content |-> NoResponseRecorded],
                       [plan_id |-> PlanP, step_id |-> StepB, content |-> "B-result"]>>)
        /\ \E m \in 1..Len(think_calls) :
                think_calls[m].dependency_outputs_context = None

----------------------------------------------------------------------------
(* C33 *)

\* the place of a step in all_steps_to_process
PosOf(ij) == CHOOSE k \in 1..Len(Steps) : Steps[k] = ij

\* the think calls of one pass follow the declared order of plans and steps
InDeclaredOrderWithinPass ==
    \A m, n \in 1..Len(think_calls) :
        (m < n /\ think_calls[m].pass = think_calls[n].pass)
            => PosOf(think_calls[m].at) < PosOf(think_calls[n].at)

\* every dependency names a step declared before the step that lists it
DeclaredBeforeDependents ==
    \A k \in 1..Len(Steps) : DepSet(Steps[k]) \subseteq {QNameOf(Steps[j]) : j \in 1..(k - 1)}

\* every step was executed in pass 0, the calls following the declared order
AllInFirstPassInOrder ==
    /\ Len(think_calls) = Len(Steps)
    /\ \A k \in 1..Len(Steps) :
          /\ think_calls[k].at = Steps[k]
          /\ think_calls[k].pass = 0
          /\ Responded(Steps[k])

\* C33 as stated: within a pass the pending steps are attempted in declared order
\* and a step's output is available to the steps attempted later in the same pass;
\* a plan list in which every dependency is declared before its dependents is
\* fully executed in the first pass, in declared order.
C33_DeclaredOrderFirstPass ==
    /\ InDeclaredOrderWithinPass
    /\ (FirstPassOver /\ DeclaredBeforeDependents) => AllInFirstPassInOrder

\* C33 amended: the same, for plan lists whose qualified ids are pairwise distinct.
C33_DeclaredOrderDistinctFirstPass ==
    /\ InDeclaredOrderWithinPass
    /\ (FirstPassOver /\ DeclaredBeforeDependents /\ DistinctQNames)
            => AllInFirstPassInOrder

\* the chain p.a <- p.b <- q.a, declared in this order, executed in pass 0
C33_Witness ==
    /\ ExecReturned
    /\ Len(Steps) = 3
    /\ DepSet(Steps[1]) = {}
    /\ DepSet(Steps[2]) = {QNameOf(Steps[1])}
    /\ DepSet(Steps[3]) = {QNameOf(Steps[2])}
    /\ DistinctQNames
    /\ AllInFirstPassInOrder

----------------------------------------------------------------------------
(* C34 *)

\* the steps listing a reference that is not of the form plan_id.step_id
MalformedSteps == {ij \in StepSet : \E d \in DepSet(ij) : ~HasDot(d)}

\* C34: a dependency reference that is not of the form plan_id.step_id (a string
\* without a dot, the empty string) is a dependency that is never satisfied: the
\* step is never handed to think and keeps its response unset, and the executor
\* does not raise while parsing the reference (it is left by an exception only
\* when a think call raised).
C34_MalformedNeverSatisfied ==
    /\ \A ij \in MalformedSteps : CallsFor(ij) = {} /\ ~Responded(ij)
    /\ pc = "raised" =>
            think_calls # <<>> /\ think_calls[Len(think_calls)].returned = None

\* the executor has returned with a step listing "pa" and a step listing ""
\* unexecuted, and a third step executed
C34_Witness ==
    /\ ExecReturned
    /\ exit_reason = "no_progress"
    /\ \E x, y, z \in StepSet :
            /\ DepSet(x) = {<<"p", "a">>} /\ ~Responded(x)
            /\ DepSet(y) = {<<>>} /\ ~Responded(y)
            /\ Responded(z)

----------------------------------------------------------------------------
(* C35 *)

\* the step at ij rests, directly or through other steps, on a reference that names
\* no step of the list or on a cycle of references
RestsOnDanglingOrCycle(ij) ==
    LET nd == NamedDeps
        N == Cardinality(nd)
        below == {QNameOf(ij)} \cup ReachableFrom(nd, {QNameOf(ij)}, N)
    IN \E q \in below : q \notin QNames \/ q \in ReachableFrom(nd, {q}, N)

\* C35 as stated: when the executor returns, the executed steps are exactly the
\* least fixed point of "all dependencies are executed steps of this plan list":
\* a step is left without response if and only if it rests, directly or
\* transitively, on a dangling reference or on a cycle.
C35_LeastFixedPoint ==
    ExecReturned =>
        /\ executed_step_qnames = Satisfiable
        /\ \A ij \in StepSet : ~Responded(ij) <=> RestsOnDanglingOrCycle(ij)

\* C35 amended: when the executor returns, the executed qualified ids are exactly
\* the least fixed point; if the qualified ids of the list are pairwise distinct,
\* a step is left without response if and only if it rests, directly or
\* transitively, on a dangling reference or on a cycle.
C35_LeastFixedPointOfNames ==
    ExecReturned =>
        /\ executed_step_qnames = Satisfiable
        /\ DistinctQNames =>
                \A ij \in StepSet : ~Responded(ij) <=> RestsOnDanglingOrCycle(ij)

\* returned with a step answered by the empty string, a step depending on it
\* executed, and a third step left on a dangling reference or a cycle
C35_Witness ==
    /\ ExecReturned
    /\ DistinctQNames
    /\ \E x, y, z \in StepSet :
            /\ DepSet(x) = {} /\ StepOf(x).response = Some("")
            /\ DepSet(y) = {QNameOf(x)} /\ Responded(y)
            /\ RestsOnDanglingOrCycle(z) /\ ~Responded(z)

----------------------------------------------------------------------------
(* C36 *)

\* the steps that have the qualified id of the step at ij
SameQName(ij) == {x \in StepSet : QNameOf(x) = QNameOf(ij)}

\* with a qualified id that two steps have, the executor returns through the
\* no-progress break, with steps pending
DuplicatesEndInNoProgress ==
    (ExecReturned /\ ~DistinctQNames) => exit_reason = "no_progress" /\ StepsPending

\* C36 as stated: when two steps of one plan list have the same qualified id, only
\* the first in declared order is executed: the second is never passed to think
\* and keeps its response unset even if it has no dependencies, and the executor
\* ends through the no-progress break with steps pending.
C36_OnlyFirstDuplicateExecuted ==
    /\ \A x, y \in StepSet :
          (QNameOf(x) = QNameOf(y) /\ PosOf(x) < PosOf(y))
              => CallsFor(y) = {} /\ ~Responded(y)
    /\ DuplicatesEndInNoProgress

\* C36 amended: of the steps that have the same qualified id at most one is
\* executed, the first the executor finds with its dependencies met; that is the
\* first in declared order when it has no dependencies.  The others are never
\* passed to think and keep their response unset even without dependencies, and
\* the executor ends through the no-progress break with steps pending.
C36_OneDuplicateExecuted ==
    /\ \A x \in StepSet :
          /\ Cardinality(UNION {CallsFor(y) : y \in SameQName(x)}) <= 1
          /\ CallsFor(x) = {} => ~Responded(x)
          /\ (DepSet(x) = {} /\ \A y \in SameQName(x) : PosOf(x) <= PosOf(y))
                => /\ FirstPassOver => ExecutedInFirstPass(x)
                   /\ \A y \in SameQName(x) \ {x} : CallsFor(y) = {} /\ ~Responded(y)
    /\ DuplicatesEndInNoProgress

\* plan q with two steps a without dependencies: the first answered, the second
\* not, the executor left through the no-progress break
C36_Witness ==
    /\ ExecReturned
    /\ exit_reason = "no_progress"
    /\ \E x, y \in StepSet :
            /\ x # y /\ QNameOf(x) = QNameOf(y) /\ PosOf(x) < PosOf(y)
            /\ DepSet(x) = {} /\ DepSet(y) = {}
            /\ Responded(x) /\ ~Responded(y) /\ CallsFor(y) = {}

----------------------------------------------------------------------------
(* C37 *)

----------------------------------------------------------------------------
(* C38 *)

\* the loop was left by break after an iteration whose planner gave plans
LeftAfterPlannedIteration ==
    /\ pc \in {"synthesizing", "returned"}
    /\ planner_calls # <<>>
    /\ planner_calls[Len(planner_calls)].plans # <<>>

====
